---- MODULE Spec2Model ----
(***************************************************************************)
(* Model of src/main.py: the FastAPI gateway that forwards a math problem  *)
(* (text or image) to the Gemini generateContent REST endpoint and unwraps *)
(* the textual answer.                                                     *)
(*                                                                         *)
(* Python values (JSON trees, Optional[str], return values) are tagged     *)
(* records; Python str is a TLA+ string; bytes is a sequence of 0..255.    *)
(***************************************************************************)
EXTENDS Integers, Sequences, FiniteSets, TLC

VARIABLES env, reqs

vars == <<env, reqs>>

(***************************************************************************)
(* Bounds of the model.                                                    *)
(***************************************************************************)
NumRequests == 2
MaxParts == 2
MaxImageLen == 3

(***************************************************************************)
(* Program constants.                                                      *)
(***************************************************************************)
StatusOK == 200
DetailLimit == 500
RawLimit == 500

(***************************************************************************)
(* Python values.                                                          *)
(***************************************************************************)
None == [t |-> "none"]
Bool(b) == [t |-> "bool", b |-> b]
Num(n) == [t |-> "num", n |-> n]
Str(s) == [t |-> "str", s |-> s]
List(xs) == [t |-> "list", xs |-> xs]
Dict(kv) == [t |-> "dict", kv |-> kv]

Min(a, b) == IF a < b THEN a ELSE b

\* s[:n] for a str and n >= 0
Take(s, n) == SubSeq(s, 1, Min(n, Len(s)))

\* bool(v): Python truthiness
Truthy(v) ==
    CASE v.t = "none" -> FALSE
      [] v.t = "bool" -> v.b
      [] v.t = "num" -> v.n # 0
      [] v.t = "str" -> v.s # ""
      [] v.t = "list" -> v.xs # <<>>
      [] v.t = "dict" -> v.kv # <<>>

\* x or y
Or(x, y) == IF Truthy(x) THEN x ELSE y

\* k in d, for a dict d
HasKey(d, k) == \E i \in 1..Len(d.kv) : d.kv[i][1] = k

\* d.get(k, default), for a dict d
DictGet(d, k, default) ==
    IF HasKey(d, k)
    THEN d.kv[CHOOSE i \in 1..Len(d.kv) : d.kv[i][1] = k][2]
    ELSE default

\* sub in s, for two str
Contains(s, sub) ==
    \E i \in 1..(Len(s) - Len(sub) + 1) : SubSeq(s, i, i + Len(sub) - 1) = sub

\* str(n) for an int
RECURSIVE NatStr(_)
NatStr(n) ==
    IF n < 10 THEN SubSeq("0123456789", n + 1, n + 1)
    ELSE NatStr(n \div 10) \o SubSeq("0123456789", (n % 10) + 1, (n % 10) + 1)

IntStr(n) == IF n < 0 THEN "-" \o NatStr(0 - n) ELSE NatStr(n)

\* repr(v); the strings of the model hold no quote, backslash or control
\* character, so repr of a str is the str between single quotes
RECURSIVE Repr(_)
RECURSIVE ReprItems(_, _)
RECURSIVE ReprPairs(_, _)
Repr(v) ==
    CASE v.t = "none" -> "None"
      [] v.t = "bool" -> IF v.b THEN "True" ELSE "False"
      [] v.t = "num" -> IntStr(v.n)
      [] v.t = "str" -> "'" \o v.s \o "'"
      [] v.t = "list" -> "[" \o ReprItems(v.xs, 1) \o "]"
      [] v.t = "dict" -> "{" \o ReprPairs(v.kv, 1) \o "}"
ReprItems(xs, i) ==
    IF i > Len(xs) THEN ""
    ELSE Repr(xs[i]) \o (IF i < Len(xs) THEN ", " ELSE "") \o ReprItems(xs, i + 1)
ReprPairs(kv, i) ==
    IF i > Len(kv) THEN ""
    ELSE "'" \o kv[i][1] \o "': " \o Repr(kv[i][2])
         \o (IF i < Len(kv) THEN ", " ELSE "") \o ReprPairs(kv, i + 1)

\* str(v)
PyStr(v) == IF v.t = "str" THEN v.s ELSE Repr(v)

\* the text of a JSON document, as the provider writes it on the wire
RECURSIVE JsonText(_)
RECURSIVE JsonItems(_, _)
RECURSIVE JsonPairs(_, _)
JsonText(v) ==
    CASE v.t = "none" -> "null"
      [] v.t = "bool" -> IF v.b THEN "true" ELSE "false"
      [] v.t = "num" -> IntStr(v.n)
      [] v.t = "str" -> "\"" \o v.s \o "\""
      [] v.t = "list" -> "[" \o JsonItems(v.xs, 1) \o "]"
      [] v.t = "dict" -> "{" \o JsonPairs(v.kv, 1) \o "}"
JsonItems(xs, i) ==
    IF i > Len(xs) THEN ""
    ELSE JsonText(xs[i]) \o (IF i < Len(xs) THEN "," ELSE "") \o JsonItems(xs, i + 1)
JsonPairs(kv, i) ==
    IF i > Len(kv) THEN ""
    ELSE "\"" \o kv[i][1] \o "\":" \o JsonText(kv[i][2])
         \o (IF i < Len(kv) THEN "," ELSE "") \o JsonPairs(kv, i + 1)

(***************************************************************************)
(* The provider's HTTP response: a status and a body, which either is a    *)
(* JSON document (json = TRUE, v its value) or is not (raw its text).      *)
(***************************************************************************)
JsonBody(v) == [json |-> TRUE, v |-> v, raw |-> ""]
RawBody(s) == [json |-> FALSE, v |-> None, raw |-> s]
Response(status, body) == [status |-> status, body |-> body]

\* resp.text
RespText(resp) == IF resp.body.json THEN JsonText(resp.body.v) ELSE resp.body.raw

(***************************************************************************)
(* Outcomes of a call or of a request: a returned value, an HTTPException  *)
(* (status, detail), or another exception that propagates.                 *)
(***************************************************************************)
NoOutcome == [kind |-> "none", status |-> 0, detail |-> "", value |-> None]
Return(v) == [kind |-> "return", status |-> 0, detail |-> "", value |-> v]
HTTPException(status, detail) ==
    [kind |-> "http", status |-> status, detail |-> detail, value |-> None]
Raise(exc) == [kind |-> "exception", status |-> 0, detail |-> exc, value |-> None]

(***************************************************************************)
(* _gemini_api_key: the environment is a record of the two variables, each *)
(* None (unset) or a str.                                                  *)
(***************************************************************************)
\* mutant of GeminiApiKey: the check is "key is None" instead of "not key"
GeminiApiKeyNoneOnly(e) ==
    LET key == Or(e.GEMINI_API_KEY, e.GOOGLE_API_KEY)
    IN  IF key.t = "none"
        THEN HTTPException(500, "GEMINI_API_KEY not configured on server")
        ELSE Return(key)

GeminiApiKey(e) ==
    LET key == Or(e.GEMINI_API_KEY, e.GOOGLE_API_KEY)
    IN  IF ~Truthy(key)
        THEN HTTPException(500, "GEMINI_API_KEY not configured on server")
        ELSE Return(key)

(***************************************************************************)
(* _gemini_generate, up to the POST: the request handed to requests.post.  *)
(***************************************************************************)
PostRequest(contents, api_key) ==
    [url |-> "https://generativelanguage.googleapis.com/v1beta/models/"
             \o "gemini-1.5-flash:generateContent?key=" \o api_key,
     json |-> [contents |-> contents],
     timeout |-> 60]

\* the except branch around requests.post
TransportError(e) == HTTPException(502, "Error contacting Gemini: " \o e)

\* mutant of ErrorDetail: the body is not truncated
ErrorDetailUntruncated(resp) == "Gemini API error: " \o RespText(resp)

\* the detail of the error raised for a response that is not 200
ErrorDetail(resp) == "Gemini API error: " \o Take(RespText(resp), DetailLimit)

(***************************************************************************)
(* _gemini_generate, the try block over the parsed body.  Every operation  *)
(* that raises in Python (AttributeError, IndexError, KeyError, TypeError) *)
(* is caught by the one except clause, so the block either returns a value *)
(* or raises.                                                              *)
(***************************************************************************)
\* c[0] does not raise
CanIndex0(c) == \/ c.t = "list" /\ c.xs # <<>>
                \/ c.t = "str" /\ c.s # ""

\* mutant of Index0: c[-1]
IndexLast(c) == IF c.t = "list" THEN c.xs[Len(c.xs)] ELSE Str(SubSeq(c.s, Len(c.s), Len(c.s)))

\* c[0]
Index0(c) == IF c.t = "list" THEN c.xs[1] ELSE Str(SubSeq(c.s, 1, 1))

\* for p in parts does not raise
Iterable(parts) == parts.t \in {"list", "str", "dict"}

\* the values that for p in parts yields
Items(parts) ==
    CASE parts.t = "list" -> parts.xs
      [] parts.t = "str" -> [i \in 1..Len(parts.s) |-> Str(SubSeq(parts.s, i, i))]
      [] parts.t = "dict" -> [i \in 1..Len(parts.kv) |-> Str(parts.kv[i][1])]

\* "text" in p raises TypeError
InRaises(p) == p.t \in {"none", "bool", "num"}

\* "text" in p
TextIn(p) ==
    CASE p.t = "dict" -> HasKey(p, "text")
      [] p.t = "str" -> Contains(p.s, "text")
      [] p.t = "list" -> \E i \in 1..Len(p.xs) : p.xs[i].t = "str" /\ p.xs[i].s = "text"
      [] OTHER -> FALSE

\* "\n".join(ts) for a list of str
RECURSIVE JoinLines(_)
JoinLines(ts) ==
    IF ts = <<>> THEN ""
    ELSE IF Len(ts) = 1 THEN ts[1].s
    ELSE ts[1].s \o "\n" \o JoinLines(Tail(ts))

TryExtract(data) ==
    IF data.t # "dict" THEN Raise("AttributeError")
    ELSE LET candidates == Or(DictGet(data, "candidates", None), List(<<>>))
    IN  IF ~CanIndex0(candidates) THEN Raise("IndexError")
    ELSE LET first == Index0(candidates)
    IN  IF first.t # "dict" THEN Raise("AttributeError")
    ELSE LET content == DictGet(first, "content", Dict(<<>>))
    IN  IF content.t # "dict" THEN Raise("AttributeError")
    ELSE LET parts == DictGet(content, "parts", List(<<>>))
    IN  IF ~Iterable(parts) THEN Raise("TypeError")
    ELSE LET items == Items(parts)
    IN  IF \E i \in 1..Len(items) :
              InRaises(items[i]) \/ (TextIn(items[i]) /\ items[i].t # "dict")
        THEN Raise("TypeError")
    ELSE LET withText == SelectSeq(items, TextIn)
             texts == [i \in 1..Len(withText) |-> DictGet(withText[i], "text", Str(""))]
             kept == SelectSeq(texts, Truthy)
    IN  IF \E i \in 1..Len(kept) : kept[i].t # "str" THEN Raise("TypeError")
    ELSE LET text1 == Str(JoinLines(kept))
             text2 == IF ~Truthy(text1)
                      THEN Or(DictGet(data, "text", None), Str(""))
                      ELSE text1
             text3 == IF ~Truthy(text2)
                      THEN Str("No response text returned from model.")
                      ELSE text2
    IN  Return(text3)

\* mutant of ParseFallback: the stringified response is not truncated
ParseFallbackUntruncated(data) ==
    Str("Unable to parse model response. Raw: " \o PyStr(data))

\* the except branch of the try block
ParseFallback(data) ==
    Str("Unable to parse model response. Raw: " \o Take(PyStr(data), RawLimit))

(***************************************************************************)
(* _gemini_generate, from the response of requests.post to its result.     *)
(***************************************************************************)
GeminiGenerateResult(resp) ==
    IF resp.status # StatusOK
    THEN HTTPException(resp.status, ErrorDetail(resp))
    ELSE IF ~resp.body.json
    THEN Raise("JSONDecodeError")
    ELSE LET data == resp.body.v
             got == TryExtract(data)
         IN  IF got.kind = "return" THEN got ELSE Return(ParseFallback(data))

(***************************************************************************)
(* The content parts of a provider message: {"text": s} or                 *)
(* {"inline_data": {"mime_type": m, "data": d}}.                           *)
(***************************************************************************)
TextPart(s) == [kind |-> "text", text |-> s, mime_type |-> "", data |-> ""]
InlinePart(m, d) == [kind |-> "inline_data", text |-> "", mime_type |-> m, data |-> d]

\* mutant of SolveTextContents: the query comes before the label
SolveTextContentsQueryFirst(query, system_instruction) ==
    LET user_instruction ==
            Or(system_instruction,
               Str("You are a helpful math tutor. Solve the problem step-by-step. "
                   \o "Show clear reasoning, intermediate steps, and final answer."))
    IN  << [role |-> "user",
            parts |-> << TextPart(user_instruction.s),
                         TextPart(query),
                         TextPart("Problem:") >>] >>

\* solve_text: the contents built from body.query (a str) and
\* body.system_instruction (None or a str)
SolveTextContents(query, system_instruction) ==
    LET user_instruction ==
            Or(system_instruction,
               Str("You are a helpful math tutor. Solve the problem step-by-step. "
                   \o "Show clear reasoning, intermediate steps, and final answer."))
    IN  << [role |-> "user",
            parts |-> << TextPart(user_instruction.s),
                         TextPart("Problem:"),
                         TextPart(query) >>] >>

\* base64.b64encode(data).decode("utf-8")
B64Alphabet == "ABCDEFGHIJKLMNOPQRSTUVWXYZabcdefghijklmnopqrstuvwxyz0123456789+/"
B64Char(i) == SubSeq(B64Alphabet, i + 1, i + 1)
RECURSIVE B64Encode(_)
B64Encode(bs) ==
    IF bs = <<>> THEN ""
    ELSE IF Len(bs) = 1
    THEN B64Char(bs[1] \div 4) \o B64Char((bs[1] % 4) * 16) \o "=="
    ELSE IF Len(bs) = 2
    THEN B64Char(bs[1] \div 4) \o B64Char((bs[1] % 4) * 16 + bs[2] \div 16)
         \o B64Char((bs[2] % 16) * 4) \o "="
    ELSE B64Char(bs[1] \div 4) \o B64Char((bs[1] % 4) * 16 + bs[2] \div 16)
         \o B64Char((bs[2] % 16) * 4 + bs[3] \div 64) \o B64Char(bs[3] % 64)
         \o B64Encode(SubSeq(bs, 4, Len(bs)))

\* mutant of EmptyUpload: the check is "data is None", which no bytes satisfy
EmptyUploadNever(data) == FALSE

\* solve_image: if not data
EmptyUpload(data) == data = <<>>

\* mutant of SolveImageContents: the check is "query is not None"
SolveImageContentsAnyQuery(data, content_type, query) ==
    LET mime == Or(content_type, Str("image/png"))
        b64 == B64Encode(data)
        instruction ==
            "You are a helpful math tutor. Read the problem from the image and solve it "
            \o "step-by-step. If the image is unclear, state assumptions."
        parts == << TextPart(instruction), InlinePart(mime.s, b64) >>
    IN  << [role |-> "user",
            parts |-> IF query.t # "none"
                      THEN parts \o << TextPart("Additional context:"), TextPart(query.s) >>
                      ELSE parts] >>

\* solve_image: the contents built from the bytes read, image.content_type
\* (None or a str) and the query form field (None or a str)
SolveImageContents(data, content_type, query) ==
    LET mime == Or(content_type, Str("image/png"))
        b64 == B64Encode(data)
        instruction ==
            "You are a helpful math tutor. Read the problem from the image and solve it "
            \o "step-by-step. If the image is unclear, state assumptions."
        parts == << TextPart(instruction), InlinePart(mime.s, b64) >>
    IN  << [role |-> "user",
            parts |-> IF Truthy(query)
                      THEN parts \o << TextPart("Additional context:"), TextPart(query.s) >>
                      ELSE parts] >>

(***************************************************************************)
(* State.  env is os.environ (the two variables read); reqs holds, for     *)
(* every inbound request, its inputs, its position in the handler, the     *)
(* number of times the upload was closed, the POSTs made on its behalf,    *)
(* the provider responses received and the outcome reported to its caller. *)
(***************************************************************************)
Requests == 1..NumRequests

Idle ==
    [pc |-> "idle", kind |-> "none",
     query |-> None, system_instruction |-> None,
     image |-> <<>>, content_type |-> None,
     data |-> <<>>, read_raised |-> FALSE, closes |-> 0,
     posts |-> <<>>, responses |-> <<>>, outcome |-> NoOutcome]

\* the handler finishes with the outcome o
Finish(q, o) == [q EXCEPT !.pc = "done", !.outcome = o]

\* _gemini_generate(contents), up to the POST: the key is resolved, and either
\* the call raises or the POST is sent and the handler blocks on it
BeginGenerate(q, contents, e) ==
    LET k == GeminiApiKey(e)
    IN  IF k.kind # "return"
        THEN Finish(q, k)
        ELSE [q EXCEPT !.pc = "posting",
                       !.posts = Append(@, PostRequest(contents, k.value.s))]

\* POST /api/solve/text
SolveText(r, query, system_instruction) ==
    /\ reqs[r].pc = "idle"
    /\ reqs' = [reqs EXCEPT ![r] =
                  BeginGenerate([@ EXCEPT !.kind = "text",
                                          !.query = Str(query),
                                          !.system_instruction = system_instruction],
                                SolveTextContents(query, system_instruction), env)]
    /\ UNCHANGED env

\* POST /api/solve/image: the handler is entered and awaits image.read()
SolveImage(r, image, content_type, query) ==
    /\ reqs[r].pc = "idle"
    /\ reqs' = [reqs EXCEPT ![r] = [@ EXCEPT !.pc = "reading",
                                             !.kind = "image",
                                             !.image = image,
                                             !.content_type = content_type,
                                             !.query = query]]
    /\ UNCHANGED env

\* mutant of ImageRead: close() follows read() without a finally clause, so an
\* exception of read() leaves the handler at once
ImageReadNoFinally(r, raises) ==
    /\ reqs[r].pc = "reading"
    /\ reqs' = [reqs EXCEPT ![r] =
                  IF raises
                  THEN Finish([@ EXCEPT !.read_raised = TRUE], Raise("OSError"))
                  ELSE [@ EXCEPT !.pc = "closing", !.data = reqs[r].image]]
    /\ UNCHANGED env

\* await image.read() completes: it returns the bytes of the upload or raises;
\* either way the finally clause runs next
ImageRead(r, raises) ==
    /\ reqs[r].pc = "reading"
    /\ reqs' = [reqs EXCEPT ![r] =
                  [@ EXCEPT !.pc = "closing",
                            !.read_raised = raises,
                            !.data = IF raises THEN <<>> ELSE reqs[r].image]]
    /\ UNCHANGED env

\* await image.close() completes, then the handler runs on to its next
\* blocking point: the exception of read() propagates, or the empty upload is
\* refused, or the contents are built and _gemini_generate is entered
ImageClose(r) ==
    /\ reqs[r].pc = "closing"
    /\ reqs' = [reqs EXCEPT ![r] =
                  LET q == [@ EXCEPT !.closes = @ + 1]
                  IN  IF q.read_raised THEN Finish(q, Raise("OSError"))
                      ELSE IF EmptyUpload(q.data)
                      THEN Finish(q, HTTPException(400, "Empty image upload"))
                      ELSE BeginGenerate(q, SolveImageContents(q.data, q.content_type,
                                                               q.query), env)]
    /\ UNCHANGED env

\* mutant of ProviderRespond: a response that is not 200 is retried once
ProviderRespondRetry(r, resp) ==
    /\ reqs[r].pc = "posting"
    /\ reqs' = [reqs EXCEPT ![r] =
                  IF resp.status # StatusOK /\ Len(@.posts) < 2
                  THEN [@ EXCEPT !.posts = Append(@, @[1])]
                  ELSE Finish([@ EXCEPT !.responses = Append(@, resp)],
                              GeminiGenerateResult(resp))]
    /\ UNCHANGED env

\* requests.post returns resp: _gemini_generate runs to its end and the
\* handler returns {"answer": answer} or the exception propagates
ProviderRespond(r, resp) ==
    /\ reqs[r].pc = "posting"
    /\ reqs' = [reqs EXCEPT ![r] =
                  Finish([@ EXCEPT !.responses = Append(@, resp)],
                         GeminiGenerateResult(resp))]
    /\ UNCHANGED env

\* requests.post raises (connection error, timeout after 60 s, DNS failure)
TransportFail(r, e) ==
    /\ reqs[r].pc = "posting"
    /\ reqs' = [reqs EXCEPT ![r] = Finish(@, TransportError(e))]
    /\ UNCHANGED env

(***************************************************************************)
(* Inputs.                                                                 *)
(***************************************************************************)
EnvGemini == {None, Str(""), Str("key1")}
EnvGoogle == {None, Str(""), Str("key2")}

Queries == {"", "2+2", "x^2=4"}
Instructions == {None, Str(""), Str("Be brief.")}
ByteValues == {0, 77, 255}
Images == UNION {[1..n -> ByteValues] : n \in 0..MaxImageLen}
ContentTypes == {None, Str(""), Str("image/jpeg")}
ImageQueries == {None, Str(""), Str("see part b")}

TextOf(s) == Dict(<< <<"text", Str(s)>> >>)
Candidate(parts) == Dict(<< <<"content", Dict(<< <<"parts", parts>> >>)>> >>)
GoodBody == Dict(<< <<"candidates", List(<< Candidate(List(<< TextOf("4") >>)) >>)>> >>)

SmallResponses == {Response(200, JsonBody(GoodBody)),
                   Response(429, RawBody("rate limited"))}
TransportErrors == {"timed out", "connection refused"}

Init ==
    /\ env \in [GEMINI_API_KEY : EnvGemini, GOOGLE_API_KEY : EnvGoogle]
    /\ reqs = [r \in Requests |-> Idle]

(***************************************************************************)
(* Spec: NumRequests requests served concurrently, over a small set of     *)
(* inputs.                                                                 *)
(***************************************************************************)
Next ==
    \/ \E r \in Requests : SolveText(r, "2+2", None)
    \/ \E r \in Requests, image \in {<<>>, <<77>>} : SolveImage(r, image, None, None)
    \/ \E r \in Requests, raises \in BOOLEAN : ImageRead(r, raises)
    \/ \E r \in Requests : ImageClose(r)
    \/ \E r \in Requests, resp \in SmallResponses : ProviderRespond(r, resp)
    \/ \E r \in Requests : TransportFail(r, "timed out")

Spec == Init /\ [][Next]_vars

(***************************************************************************)
(* SpecRequest: one request, over every input.                             *)
(***************************************************************************)
NextRequest ==
    \/ \E query \in Queries, si \in Instructions : SolveText(1, query, si)
    \/ \E image \in Images, ct \in ContentTypes, query \in ImageQueries :
          SolveImage(1, image, ct, query)
    \/ \E raises \in BOOLEAN : ImageRead(1, raises)
    \/ ImageClose(1)
    \/ \E resp \in SmallResponses : ProviderRespond(1, resp)
    \/ \E e \in TransportErrors : TransportFail(1, e)

SpecRequest == Init /\ [][NextRequest]_vars

(***************************************************************************)
(* SpecProvider: one text request, over every provider response of a       *)
(* family that walks the access path data.candidates[0].content.parts[i]   *)
(* .text and data.text through the JSON types.                             *)
(***************************************************************************)
RECURSIVE Repeat(_, _)
Repeat(s, n) == IF n = 0 THEN "" ELSE s \o Repeat(s, n - 1)

\* a text of n characters
LongText(n) == Take(Repeat("abcdefghij", n \div 10 + 1), n)

SeqsUpTo(S, n) == UNION {[1..k -> S] : k \in 0..n}

PartValues ==
    {TextOf("a"), TextOf("b"), TextOf(""),
     Dict(<< <<"text", None>> >>), Dict(<< <<"text", Num(42)>> >>),
     Dict(<< <<"inline_data", Dict(<<>>)>> >>),
     Str("no text!"), Str("abc"), Num(5), List(<< Str("text") >>)}

PartsValues ==
    {None, Num(3), Str("abc"), Dict(<< <<"k", Num(1)>> >>), Dict(<< <<"text", Num(1)>> >>)}
    \cup {List(xs) : xs \in SeqsUpTo(PartValues, MaxParts)}

FirstValues ==
    {None, Num(1), Str("x"), List(<<>>), Dict(<<>>),
     Dict(<< <<"content", None>> >>), Dict(<< <<"content", Dict(<<>>)>> >>),
     Dict(<< <<"content", List(<<>>)>> >>), Dict(<< <<"content", Str("c")>> >>)}
    \cup {Candidate(ps) : ps \in PartsValues}

OtherCandidate == Candidate(List(<< TextOf("other") >>))

CandidatesValues ==
    {None, Bool(TRUE), Num(1), Str("abc"), List(<<>>), Dict(<<>>),
     Dict(<< <<"0", OtherCandidate>> >>)}
    \cup {List(<< f >>) : f \in FirstValues}
    \cup {List(<< f, OtherCandidate >>) : f \in FirstValues}

TopTextValues ==
    {None, Num(0), Num(42), Str(""), Str("top"), Str(LongText(RawLimit + 1))}

DictBodies ==
    {Dict(<<>>)}
    \cup {Dict(<< <<"candidates", c>> >>) : c \in CandidatesValues}
    \cup {Dict(<< <<"text", t>> >>) : t \in TopTextValues}
    \cup {Dict(<< <<"candidates", c>>, <<"text", t>> >>) :
             c \in CandidatesValues, t \in TopTextValues}

OtherJson == {None, Bool(FALSE), Num(7), Str("ok"), Str(LongText(RawLimit + 1)),
              List(<<>>), List(<< GoodBody >>)}

RawTexts == {"", "rate limited", "<html>Bad Gateway</html>",
             LongText(DetailLimit - 1), LongText(DetailLimit), LongText(DetailLimit + 1)}

ErrorBody == Dict(<< <<"error", Dict(<< <<"code", Num(429)>>,
                                        <<"message", Str(LongText(DetailLimit))>> >>)>> >>)

FewBodies == {RawBody(s) : s \in RawTexts}
             \cup {JsonBody(v) : v \in {GoodBody, ErrorBody, Dict(<<>>)}}

Statuses == {200, 201, 204, 301, 400, 429, 500, 503}

ProviderResponses ==
    {Response(200, JsonBody(v)) : v \in DictBodies \cup OtherJson}
    \cup {Response(st, b) : st \in Statuses, b \in FewBodies}

NextProvider ==
    \/ SolveText(1, "2+2", None)
    \/ \E resp \in ProviderResponses : ProviderRespond(1, resp)
    \/ \E e \in TransportErrors : TransportFail(1, e)

SpecProvider == Init /\ [][NextProvider]_vars

(***************************************************************************)
(* Vocabulary of the properties.                                           *)
(***************************************************************************)
\* the request got a response from the provider and has finished
Responded(q) == q.pc = "done" /\ Len(q.responses) = 1

Is2xx(status) == 200 <= status /\ status <= 299

\* the number of outbound provider calls made for the request
Calls(q) == Len(q.posts)

KeyConfigured == \/ env.GEMINI_API_KEY.t = "str" /\ env.GEMINI_API_KEY.s # ""
                 \/ env.GOOGLE_API_KEY.t = "str" /\ env.GOOGLE_API_KEY.s # ""

\* d[k] for a dict d that has the key k
Field(d, k) == d.kv[CHOOSE i \in 1..Len(d.kv) : d.kv[i][1] = k][2]

(***************************************************************************)
(* Properties of _gemini_generate (SpecProvider).                          *)
(***************************************************************************)

\* C1: with an API key configured, a POST that completes and a 2xx status,
\* the routine returns a str and raises nothing, whatever the body is.
ReturnsStringOnEvery2xx ==
    \A r \in Requests :
        LET q == reqs[r]
        IN  (Responded(q) /\ KeyConfigured /\ Is2xx(q.responses[1].status))
            => (q.outcome.kind = "return" /\ q.outcome.value.t = "str")

\* C3: a response whose status is not 2xx fails with an HTTP error of the
\* same status whose detail is "Gemini API error: " followed by the first 500
\* characters of the raw body, and no answer is returned; 429 with the body
\* "rate limited" gives the detail "Gemini API error: rate limited".
NonSuccessMirrorsStatus ==
    \A r \in Requests :
        LET q == reqs[r]
            resp == q.responses[1]
            text == RespText(resp)
            pre == "Gemini API error: "
            d == q.outcome.detail
            rest == SubSeq(d, Len(pre) + 1, Len(d))
        IN  (Responded(q) /\ ~Is2xx(resp.status))
            => /\ q.outcome.kind = "http"
               /\ q.outcome.status = resp.status
               /\ q.outcome.value = None
               /\ Len(d) >= Len(pre) /\ SubSeq(d, 1, Len(pre)) = pre
               /\ Len(rest) = (IF Len(text) > 500 THEN 500 ELSE Len(text))
               /\ rest = SubSeq(text, 1, Len(rest))
               /\ (resp.status = 429 /\ text = "rate limited")
                  => d = "Gemini API error: rate limited"

\* C3 witness: a 429 whose raw body is longer than 500 characters was reported
NonSuccessLongBodyReported ==
    \E r \in Requests :
        /\ Responded(reqs[r])
        /\ reqs[r].responses[1].status = 429
        /\ Len(RespText(reqs[r].responses[1])) > 500
        /\ reqs[r].outcome.kind = "http"

\* the expected shape of a response body: an object whose candidates is a
\* non-empty list, whose first candidate is an object, whose content (when
\* present) is an object, whose parts (when present) is a list of objects,
\* every text being a str
ExpectedShape(d) ==
    /\ d.t = "dict"
    /\ HasKey(d, "candidates")
    /\ Field(d, "candidates").t = "list"
    /\ Field(d, "candidates").xs # <<>>
    /\ LET first == Field(d, "candidates").xs[1]
       IN  /\ first.t = "dict"
           /\ HasKey(first, "content") =>
                LET content == Field(first, "content")
                IN  /\ content.t = "dict"
                    /\ HasKey(content, "parts") =>
                         LET parts == Field(content, "parts")
                         IN  /\ parts.t = "list"
                             /\ \A i \in 1..Len(parts.xs) :
                                   /\ parts.xs[i].t = "dict"
                                   /\ HasKey(parts.xs[i], "text")
                                      => Field(parts.xs[i], "text").t = "str"
    /\ HasKey(d, "text") => Field(d, "text").t = "str"

\* candidates[0].content.parts of a body of the expected shape
FirstParts(d) ==
    LET first == Field(d, "candidates").xs[1]
    IN  IF HasKey(first, "content") /\ HasKey(Field(first, "content"), "parts")
        THEN Field(Field(first, "content"), "parts").xs
        ELSE <<>>

\* the non-empty texts of the parts that have a text field, in order
RECURSIVE PartTexts(_)
PartTexts(ps) ==
    IF ps = <<>> THEN <<>>
    ELSE LET t == IF HasKey(Head(ps), "text") THEN Field(Head(ps), "text").s ELSE ""
         IN  (IF t # "" THEN <<t>> ELSE <<>>) \o PartTexts(Tail(ps))

RECURSIVE NewlineSeparated(_)
NewlineSeparated(ss) ==
    IF ss = <<>> THEN ""
    ELSE IF Len(ss) = 1 THEN ss[1]
    ELSE NewlineSeparated(SubSeq(ss, 1, Len(ss) - 1)) \o "\n" \o ss[Len(ss)]

\* the answer by the three rules, in their order
RuleAnswer(d) ==
    LET t1 == NewlineSeparated(PartTexts(FirstParts(d)))
    IN  IF t1 # "" THEN t1
        ELSE IF HasKey(d, "text") /\ Field(d, "text").s # "" THEN Field(d, "text").s
        ELSE "No response text returned from model."

\* C6: on a successful (status 200) response of the expected shape the answer
\* is given by the first rule that yields non-empty text: the non-empty texts
\* of candidates[0].content.parts joined by newlines, else the top-level text,
\* else "No response text returned from model."; only the first candidate is
\* used.
AnswerFollowsExtractionRules ==
    \A r \in Requests :
        LET q == reqs[r]
            resp == q.responses[1]
        IN  (Responded(q) /\ resp.status = 200 /\ resp.body.json
             /\ ExpectedShape(resp.body.v))
            => q.outcome = Return(Str(RuleAnswer(resp.body.v)))

\* C6 witness: two candidates, the first with the parts a and b, were answered
\* with "a\nb"
TwoPartsAnswered ==
    \E r \in Requests :
        /\ Responded(reqs[r])
        /\ reqs[r].responses[1]
             = Response(200, JsonBody(Dict(<< <<"candidates",
                   List(<< Candidate(List(<< TextOf("a"), TextOf("b") >>)),
                           OtherCandidate >>)>> >>)))
        /\ reqs[r].outcome.value = Str("a\nb")

\* a part on which reading its text fails: a null, number or boolean; a
\* string or a list, which can hold "text" but has no fields; an object whose
\* text is neither a string nor empty
PartUnreadable(p) ==
    \/ p.t \in {"none", "num", "bool"}
    \/ p.t = "str" /\ Contains(p.s, "text")
    \/ p.t = "list" /\ \E j \in 1..Len(p.xs) : p.xs[j] = Str("text")
    \/ /\ p.t = "dict"
       /\ HasKey(p, "text")
       /\ LET t == Field(p, "text")
          IN  \/ t.t = "num" /\ t.n # 0
              \/ t.t = "bool" /\ t.b
              \/ t.t = "list" /\ t.xs # <<>>
              \/ t.t = "dict" /\ t.kv # <<>>

\* a parts value that cannot be walked part by part
PartsUnreadable(parts) ==
    \/ parts.t \in {"none", "num", "bool"}
    \/ parts.t = "list" /\ \E i \in 1..Len(parts.xs) : PartUnreadable(parts.xs[i])
    \/ parts.t = "dict" /\ \E i \in 1..Len(parts.kv) : Contains(parts.kv[i][1], "text")

\* a body on which the path candidates[0].content.parts[i].text cannot be
\* followed: not an object, candidates missing or not a non-empty list, the
\* first candidate not an object, content not an object, parts or a part
\* unreadable
CannotTraverse(d) ==
    \/ d.t # "dict"
    \/ /\ d.t = "dict"
       /\ \/ ~HasKey(d, "candidates")
          \/ /\ HasKey(d, "candidates")
             /\ LET c == Field(d, "candidates")
                IN  \/ c.t # "list"
                    \/ c.t = "list" /\ c.xs = <<>>
                    \/ /\ c.t = "list" /\ c.xs # <<>>
                       /\ LET first == c.xs[1]
                          IN  \/ first.t # "dict"
                              \/ /\ first.t = "dict" /\ HasKey(first, "content")
                                 /\ LET content == Field(first, "content")
                                    IN  \/ content.t # "dict"
                                        \/ /\ content.t = "dict"
                                           /\ HasKey(content, "parts")
                                           /\ PartsUnreadable(Field(content, "parts"))

\* C7: a status 200 response whose JSON body cannot be traversed into the
\* expected shape ({} , no candidates key, an empty candidates list, ...) makes
\* the call succeed with the answer "Unable to parse model response. Raw: "
\* followed by the first 500 characters of the stringified response.
UntraversableBodyDegrades ==
    \A r \in Requests :
        LET q == reqs[r]
            resp == q.responses[1]
            pre == "Unable to parse model response. Raw: "
            raw == PyStr(resp.body.v)
        IN  (Responded(q) /\ resp.status = 200 /\ resp.body.json
             /\ CannotTraverse(resp.body.v))
            => /\ q.outcome.kind = "return"
               /\ q.outcome.value.t = "str"
               /\ q.outcome.value.s =
                     pre \o SubSeq(raw, 1, IF Len(raw) > 500 THEN 500 ELSE Len(raw))
               /\ resp.body.v = Dict(<<>>)
                  => q.outcome.value.s = "Unable to parse model response. Raw: {}"

\* C7 witness: a body without candidates whose stringification is longer than
\* 500 characters was answered
LongUntraversableBodyAnswered ==
    \E r \in Requests :
        /\ Responded(reqs[r])
        /\ reqs[r].responses[1].status = 200
        /\ reqs[r].responses[1].body.json
        /\ reqs[r].responses[1].body.v.t = "dict"
        /\ ~HasKey(reqs[r].responses[1].body.v, "candidates")
        /\ Len(PyStr(reqs[r].responses[1].body.v)) > 500
        /\ reqs[r].outcome.kind = "return"

(***************************************************************************)
(* Properties of the two handlers (SpecRequest: one request, every input). *)
(***************************************************************************)
ConfigurationError == HTTPException(500, "GEMINI_API_KEY not configured on server")

\* C2: with neither variable set to a non-empty value, every text request and
\* every image request whose upload was read, the empty upload included, ends
\* in HTTP 500 "GEMINI_API_KEY not configured on server" with no provider call.
NoKeyAlwaysConfigurationError ==
    \A r \in Requests :
        LET q == reqs[r]
        IN  (~KeyConfigured /\ q.pc = "done" /\ ~q.read_raised)
            => (q.outcome = ConfigurationError /\ Calls(q) = 0)

\* C2 as amended: with neither variable set to a non-empty value no provider
\* call is ever made; every text request and every image request whose upload
\* was read and is not empty ends in HTTP 500 "GEMINI_API_KEY not configured
\* on server"; an empty upload ends in HTTP 400 "Empty image upload".
NoKeyConfigurationErrorUnlessEmptyUpload ==
    \A r \in Requests :
        LET q == reqs[r]
        IN  ~KeyConfigured
            => /\ Calls(q) = 0
               /\ (q.pc = "done" /\ q.kind = "text") => q.outcome = ConfigurationError
               /\ (q.pc = "done" /\ q.kind = "image" /\ ~q.read_raised /\ q.image # <<>>)
                  => q.outcome = ConfigurationError
               /\ (q.pc = "done" /\ q.kind = "image" /\ ~q.read_raised /\ q.image = <<>>)
                  => q.outcome = HTTPException(400, "Empty image upload")

\* C2 witness: without a key, an image request with a non-empty upload ended
\* in the configuration error
NoKeyImageRefused ==
    \E r \in Requests :
        /\ ~KeyConfigured
        /\ reqs[r].pc = "done" /\ reqs[r].kind = "image" /\ reqs[r].data # <<>>
        /\ reqs[r].outcome = ConfigurationError

\* C4: an image request with an empty payload ends in HTTP 400 "Empty image
\* upload", and no provider call is made for it at any point.
EmptyUploadRefusedWithoutCall ==
    \A r \in Requests :
        LET q == reqs[r]
        IN  (q.kind = "image" /\ q.image = <<>>)
            => /\ Calls(q) = 0
               /\ q.pc # "posting"
               /\ (q.pc = "done" /\ ~q.read_raised)
                  => q.outcome = HTTPException(400, "Empty image upload")

\* C4 witness: an empty upload was refused while a key is configured
EmptyUploadRefused ==
    \E r \in Requests :
        /\ KeyConfigured
        /\ reqs[r].kind = "image" /\ reqs[r].image = <<>> /\ reqs[r].pc = "done"
        /\ reqs[r].outcome.status = 400

DefaultInstruction ==
    "You are a helpful math tutor. Solve the problem step-by-step. "
    \o "Show clear reasoning, intermediate steps, and final answer."

\* the one message posted for the request has the role "user" and the three
\* text parts instruction, "Problem:", query
TextMessageIs(q, instruction) ==
    LET contents == q.posts[1].json.contents
    IN  /\ Len(contents) = 1
        /\ contents[1].role = "user"
        /\ Len(contents[1].parts) = 3
        /\ \A i \in 1..3 : contents[1].parts[i].kind = "text"
        /\ contents[1].parts[1].text = instruction
        /\ contents[1].parts[2].text = "Problem:"
        /\ contents[1].parts[3].text = q.query.s

\* C8: for a non-empty query the message posted is [instruction, "Problem:",
\* query], the instruction being system_instruction when one is supplied and
\* the default when it is omitted or null.
TextMessageUsesSuppliedInstruction ==
    \A r \in Requests :
        LET q == reqs[r]
        IN  (q.kind = "text" /\ q.query.s # "" /\ Calls(q) >= 1)
            => TextMessageIs(q, IF q.system_instruction.t = "str"
                                THEN q.system_instruction.s
                                ELSE DefaultInstruction)

\* C8 as amended: for a non-empty query the message posted is [instruction,
\* "Problem:", query], the instruction being system_instruction when a
\* non-empty one is supplied and the default when it is omitted, null or the
\* empty string.
TextMessageUsesNonEmptyInstruction ==
    \A r \in Requests :
        LET q == reqs[r]
        IN  (q.kind = "text" /\ q.query.s # "" /\ Calls(q) >= 1)
            => TextMessageIs(q, IF q.system_instruction.t = "str"
                                   /\ q.system_instruction.s # ""
                                THEN q.system_instruction.s
                                ELSE DefaultInstruction)

\* C8 witness: a text request with a supplied instruction was posted
SuppliedInstructionPosted ==
    \E r \in Requests :
        /\ reqs[r].kind = "text" /\ reqs[r].query.s # "" /\ Calls(reqs[r]) = 1
        /\ reqs[r].system_instruction = Str("Be brief.")
        /\ reqs[r].posts[1].json.contents[1].parts[1].text = "Be brief."

\* base64 decoding, by groups of four characters
B64Index(c) == (CHOOSE i \in 1..64 : SubSeq(B64Alphabet, i, i) = c) - 1
RECURSIVE B64Decode(_)
B64Decode(s) ==
    IF Len(s) < 4 THEN <<>>
    ELSE LET c(i) == SubSeq(s, i, i)
             n1 == B64Index(c(1))
             n2 == B64Index(c(2))
             b1 == n1 * 4 + n2 \div 16
             group ==
                 IF c(3) = "=" THEN <<b1>>
                 ELSE LET n3 == B64Index(c(3))
                          b2 == (n2 % 16) * 16 + n3 \div 4
                      IN  IF c(4) = "=" THEN <<b1, b2>>
                          ELSE <<b1, b2, (n3 % 4) * 64 + B64Index(c(4))>>
         IN  group \o B64Decode(SubSeq(s, 5, Len(s)))

ImageInstruction ==
    "You are a helpful math tutor. Read the problem from the image and solve it "
    \o "step-by-step. If the image is unclear, state assumptions."

\* C9: for a non-empty payload the one message posted has the role "user" and
\* the parts [instruction, inline attachment] when query is absent or empty,
\* [instruction, inline attachment, "Additional context:", query] otherwise;
\* the attachment carries the media type (image/png when the upload declares
\* none) and the base64 encoding of the bytes.
ImageMessageHasTwoOrFourParts ==
    \A r \in Requests :
        LET q == reqs[r]
            contents == q.posts[1].json.contents
            parts == contents[1].parts
            withQuery == q.query.t = "str" /\ q.query.s # ""
        IN  (q.kind = "image" /\ Calls(q) >= 1)
            => /\ q.data # <<>>
               /\ Len(contents) = 1
               /\ contents[1].role = "user"
               /\ Len(parts) = (IF withQuery THEN 4 ELSE 2)
               /\ parts[1].kind = "text" /\ parts[1].text = ImageInstruction
               /\ parts[2].kind = "inline_data"
               /\ parts[2].mime_type =
                     (IF q.content_type.t = "str" /\ q.content_type.s # ""
                      THEN q.content_type.s ELSE "image/png")
               /\ Len(parts[2].data) = 4 * ((Len(q.image) + 2) \div 3)
               /\ B64Decode(parts[2].data) = q.image
               /\ q.image = <<77>> => parts[2].data = "TQ=="
               /\ q.image = <<255, 0>> => parts[2].data = "/wA="
               /\ q.image = <<77, 0, 255>> => parts[2].data = "TQD/"
               /\ withQuery => /\ parts[3] = TextPart("Additional context:")
                               /\ parts[4] = TextPart(q.query.s)

\* C9 witness: an upload of two bytes with a query was posted as four parts
FourPartsPosted ==
    \E r \in Requests :
        /\ reqs[r].kind = "image" /\ Calls(reqs[r]) = 1
        /\ Len(reqs[r].image) = 2
        /\ reqs[r].query = Str("see part b")
        /\ Len(reqs[r].posts[1].json.contents[1].parts) = 4

(***************************************************************************)
(* Properties of concurrent requests (Spec).                               *)
(***************************************************************************)
ValidInput(q) == \/ q.kind = "text"
                 \/ q.kind = "image" /\ ~q.read_raised /\ q.image # <<>>

\* C5: for every request, under any interleaving, at most one provider call is
\* made, exactly one once it has finished with a valid input and a key
\* configured; after a transport failure or a non-2xx status the call is not
\* repeated and the failure is the outcome of that request.
AtMostOneProviderCall ==
    \A r \in Requests :
        LET q == reqs[r]
        IN  /\ Calls(q) <= 1
            /\ Len(q.responses) <= Calls(q)
            /\ (q.pc = "done" /\ KeyConfigured /\ ValidInput(q)) => Calls(q) = 1
            /\ (q.pc = "done" /\ ~(KeyConfigured /\ ValidInput(q))) => Calls(q) = 0
            /\ q.pc = "posting" => (Calls(q) = 1 /\ q.responses = <<>>)
            /\ (q.responses # <<>> /\ ~Is2xx(q.responses[1].status))
               => /\ q.pc = "done"
                  /\ q.outcome.kind = "http"
                  /\ q.outcome.status = q.responses[1].status
            /\ q.outcome.status = 502 => (q.pc = "done" /\ Calls(q) = 1)

\* C5 witness: one request has failed on a timeout after its one call while
\* another is blocked in its own call
FailedWhileOtherPosting ==
    \E r1, r2 \in Requests :
        /\ r1 # r2
        /\ reqs[r1].pc = "done" /\ reqs[r1].outcome.status = 502 /\ Calls(reqs[r1]) = 1
        /\ reqs[r2].pc = "posting"

\* C10: the upload of an image request is closed exactly once before the
\* request finishes, on every exit path, and is closed before the provider
\* call starts.
UploadClosedExactlyOnce ==
    \A r \in Requests :
        LET q == reqs[r]
        IN  /\ q.closes <= 1
            /\ (q.kind = "image" /\ q.pc = "done") => q.closes = 1
            /\ (q.kind = "image" /\ (q.pc = "posting" \/ Calls(q) >= 1)) => q.closes = 1

\* C10 witness: a request whose read raised has finished with the upload closed
ClosedAfterReadRaised ==
    \E r \in Requests :
        /\ reqs[r].kind = "image" /\ reqs[r].pc = "done"
        /\ reqs[r].read_raised /\ reqs[r].outcome.kind = "exception"
        /\ reqs[r].closes = 1

====
